---- MODULE Spec2Model ----
(***************************************************************************)
(* run-on-output: a supervisor that spawns a child command, forwards its   *)
(* stdout/stderr in real time, watches the chunks for a list of patterns   *)
(* and runs follow-up actions.  The model follows run-on-output.js         *)
(* (src/unnamed/part_002): createPatternMatcher, createOutputBuffer,       *)
(* executeCommand, executeActionsWhenPatternsFound, setupSignalHandling,   *)
(* handleChildProcessError, determineExitCode, finalizeOutput and run.     *)
(*                                                                         *)
(* Text is a sequence of characters.  The real streams and the four        *)
(* buffers are sequences of pieces [src, text]: the concatenation of the   *)
(* pieces is the string the code holds, src records who produced it.       *)
(***************************************************************************)
EXTENDS Naturals, Integers, Sequences, FiniteSets

VARIABLES
    config,                \* the object returned by parseArguments
    foundPatterns,         \* createPatternMatcher: const foundPatterns
    matcherAllPatternsFound, \* createPatternMatcher: let allPatternsFound
    calls,                 \* history: the chunks passed to checkPatterns
    returns,               \* history: the values checkPatterns returned
    outputBuffer,          \* createOutputBuffer: let outputBuffer
    errorBuffer,           \* createOutputBuffer: let errorBuffer
    actionOutputBuffer,    \* createOutputBuffer: let actionOutputBuffer
    actionErrorBuffer,     \* createOutputBuffer: let actionErrorBuffer
    realStdout,            \* everything written to process.stdout
    realStderr,            \* everything written to process.stderr
    allPatternsFound,      \* run: let allPatternsFound
    childState,            \* the monitored child: running, spawnFailed, exited
    childExitCode,         \* the code the child's 'exit' event carried
    childSignals,          \* signals passed to childProcess.kill
    pc,                    \* position of the child 'exit' handler
    decision,              \* history: the flag as the 'exit' event was handled
    pendingExitCode,       \* the handler's const exitCode
    actions,               \* the subprocesses started by executeCommand
    execCount,             \* how many times each action was executed
    timers,                \* pending setTimeout callbacks of handleSignal
    procState,             \* the supervising process: alive or exited
    procExitCode,          \* the code given to process.exit
    exitPath,              \* which process.exit call ended the process
    undefinedReturns,      \* history: outcomes of checkPatterns(undefined)
    argv,                  \* the arguments given to run / parseArguments
    execArgs,              \* the (command, args, options) given to executeCommand
    execChild              \* executeCommand on its own: its spawn call, the
                           \* subprocess's events and the returned promise

vars == <<config, foundPatterns, matcherAllPatternsFound, calls, returns,
          outputBuffer, errorBuffer, actionOutputBuffer, actionErrorBuffer,
          realStdout, realStderr, allPatternsFound, childState, childExitCode,
          childSignals, pc, decision, pendingExitCode, actions, execCount,
          timers, procState, procExitCode, exitPath, undefinedReturns,
          argv, execArgs, execChild>>

\* the inputs and results of the functions exercised on their own
toolVars == <<undefinedReturns, argv, execArgs, execChild>>

matcherVars == <<foundPatterns, matcherAllPatternsFound, calls, returns>>

sessionVars == <<outputBuffer, errorBuffer, actionOutputBuffer,
                 actionErrorBuffer, realStdout, realStderr, allPatternsFound,
                 childState, childExitCode, childSignals, pc, decision,
                 pendingExitCode, actions, execCount, timers, procState,
                 procExitCode, exitPath>>

----------------------------------------------------------------------------
(* Bounds *)

MaxMatcherPatterns == 2   \* longest pattern list given to a stand-alone matcher
MaxCalls == 3             \* checkPatterns calls on a stand-alone matcher
MaxInputs == 3            \* chunks and signals the supervisor receives in one session

----------------------------------------------------------------------------
(* Text *)

Lower(ch) == CASE ch = "A" -> "a" [] ch = "B" -> "b" [] OTHER -> ch

toLowerCase(s) == [i \in 1..Len(s) |-> Lower(s[i])]

includes(s, sub) ==
    \E i \in 0..(Len(s) - Len(sub)) : SubSeq(s, i + 1, i + Len(sub)) = sub

\* The regex sources of the model are made of letters, the wildcard '.',
\* the group opener '(' and the escape '\'.  RegexAtoms reads a source into
\* its atoms: '\' makes the next character a literal, '.' matches any
\* character, every other character matches itself.
RECURSIVE RegexAtoms(_)
RegexAtoms(re) ==
    IF re = <<>> THEN <<>>
    ELSE IF re[1] = "\\" /\ Len(re) >= 2
         THEN <<[any |-> FALSE, ch |-> re[2]]>> \o RegexAtoms(SubSeq(re, 3, Len(re)))
         ELSE <<[any |-> re[1] = ".", ch |-> re[1]]>>
                  \o RegexAtoms(SubSeq(re, 2, Len(re)))

\* new RegExp(source, 'i') throws a SyntaxError: an unescaped '(' is never
\* closed, or the source ends with a lone '\'
RECURSIVE RegexInvalid(_)
RegexInvalid(re) ==
    IF re = <<>> THEN FALSE
    ELSE IF re[1] = "\\"
         THEN Len(re) = 1 \/ RegexInvalid(SubSeq(re, 3, Len(re)))
         ELSE re[1] = "(" \/ RegexInvalid(SubSeq(re, 2, Len(re)))

\* RegExp.prototype.test for a regex compiled with the flag 'i': a search,
\* letter case ignored.
RegexTest(re, s) ==
    LET atoms == RegexAtoms(re)
    IN \E i \in 0..(Len(s) - Len(atoms)) :
           \A j \in 1..Len(atoms) :
               atoms[j].any \/ Lower(atoms[j].ch) = Lower(s[i + j])

StringPattern(v) == [type |-> "string", value |-> v]
\* new RegExp(v, 'i'): value stands for the source, flags for .flags
RegexPattern(v) == [type |-> "regex", value |-> v, flags |-> "i"]

----------------------------------------------------------------------------
(* createPatternMatcher *)

\* a string pattern compared with the whole chunk, case kept
isMatchExact(pattern, output) ==
    IF pattern.type = "string"
    THEN output = pattern.value
    ELSE RegexTest(pattern.value, output)

\* const isMatch = pattern.type === 'string' ? ... : ...
isMatch(pattern, output) ==
    IF pattern.type = "string"
    THEN includes(toLowerCase(output), pattern.value)
    ELSE RegexTest(pattern.value, output)

\* pattern.value for a string pattern, pattern.value.source for a regex
patternKey(pattern) == pattern.value

\* checkPatterns without the `if (allPatternsFound) return false` guard and
\* without the `&& !allPatternsFound` test
checkPatternsUnguarded(found, complete, patterns, output) ==
    LET added == {patternKey(patterns[i]) :
                     i \in {j \in 1..Len(patterns) : isMatch(patterns[j], output)}}
        found2 == found \cup added
    IN IF Cardinality(found2) = Len(patterns)
       THEN [found |-> found2, complete |-> TRUE, ret |-> TRUE]
       ELSE [found |-> found2, complete |-> complete, ret |-> FALSE]

\* checkPatterns that accepts the patterns only in list order: a pattern
\* counts once the patterns before it have been found by earlier chunks
checkPatternsInOrder(found, complete, patterns, output) ==
    IF complete
    THEN [found |-> found, complete |-> complete, ret |-> FALSE]
    ELSE LET added == {patternKey(patterns[i]) :
                          i \in {j \in 1..Len(patterns) :
                                    /\ isMatch(patterns[j], output)
                                    /\ \A k \in 1..(j - 1) :
                                           patternKey(patterns[k]) \in found}}
             found2 == found \cup added
         IN IF Cardinality(found2) = Len(patterns) /\ ~complete
            THEN [found |-> found2, complete |-> TRUE, ret |-> TRUE]
            ELSE [found |-> found2, complete |-> complete, ret |-> FALSE]

\* checkPatterns that keeps only the patterns found in the latest chunk
checkPatternsLatestChunk(found, complete, patterns, output) ==
    IF complete
    THEN [found |-> found, complete |-> complete, ret |-> FALSE]
    ELSE LET found2 == {patternKey(patterns[i]) :
                          i \in {j \in 1..Len(patterns) : isMatch(patterns[j], output)}}
         IN IF Cardinality(found2) = Len(patterns) /\ ~complete
            THEN [found |-> found2, complete |-> TRUE, ret |-> TRUE]
            ELSE [found |-> found2, complete |-> complete, ret |-> FALSE]

\* checkPatterns that records the matching chunk instead of the pattern's key
checkPatternsKeyedByChunk(found, complete, patterns, output) ==
    IF complete
    THEN [found |-> found, complete |-> complete, ret |-> FALSE]
    ELSE LET added == {output :
                          i \in {j \in 1..Len(patterns) : isMatch(patterns[j], output)}}
             found2 == found \cup added
         IN IF Cardinality(found2) = Len(patterns) /\ ~complete
            THEN [found |-> found2, complete |-> TRUE, ret |-> TRUE]
            ELSE [found |-> found2, complete |-> complete, ret |-> FALSE]

\* One call of checkPatterns on the matcher state (found, complete):
\* the new state and the returned value.
checkPatterns(found, complete, patterns, output) ==
    IF complete
    THEN [found |-> found, complete |-> complete, ret |-> FALSE]
    ELSE LET added == {patternKey(patterns[i]) :
                          i \in {j \in 1..Len(patterns) : isMatch(patterns[j], output)}}
             found2 == found \cup added
         IN IF Cardinality(found2) = Len(patterns) /\ ~complete
            THEN [found |-> found2, complete |-> TRUE, ret |-> TRUE]
            ELSE [found |-> found2, complete |-> complete, ret |-> FALSE]

\* String(undefined), what RegExp.prototype.test makes of an undefined chunk
UndefinedText == <<"u", "n", "d", "e", "f", "i", "n", "e", "d">>

\* One call of checkPatterns with an undefined chunk.  A string pattern
\* evaluates output.toLowerCase() and throws a TypeError; a regex pattern
\* tests the text "undefined".  The loop runs in list order, so the keys
\* added before the throw stay in the found-set.
checkPatternsUndefined(found, complete, patterns) ==
    IF complete
    THEN [found |-> found, complete |-> complete, ret |-> "false"]
    ELSE LET strings == {j \in 1..Len(patterns) : patterns[j].type = "string"}
             last == IF strings = {}
                     THEN Len(patterns)
                     ELSE (CHOOSE j \in strings : \A k \in strings : j <= k) - 1
             added == {patternKey(patterns[i]) :
                          i \in {j \in 1..last :
                                    RegexTest(patterns[j].value, UndefinedText)}}
             found2 == found \cup added
         IN IF strings # {}
            THEN [found |-> found2, complete |-> complete, ret |-> "throw"]
            ELSE IF Cardinality(found2) = Len(patterns) /\ ~complete
            THEN [found |-> found2, complete |-> TRUE, ret |-> "true"]
            ELSE [found |-> found2, complete |-> complete, ret |-> "false"]

isComplete == matcherAllPatternsFound

----------------------------------------------------------------------------
(* Inputs *)

\* chunks handed to a stand-alone matcher
MatcherChunks ==
    {<<>>, <<"a">>, <<"A">>, <<"b">>,
     <<"a", "b">>, <<"A", "b">>, <<"b", "a">>, <<"a", "a">>}

MatcherPatterns ==
    {StringPattern(<<"a">>), StringPattern(<<"b">>),
     StringPattern(<<"a", "b">>), RegexPattern(<<"a", ".">>)}

RECURSIVE SeqsUpTo(_, _)
SeqsUpTo(S, n) ==
    IF n = 0 THEN {<<>>}
    ELSE LET shorter == SeqsUpTo(S, n - 1)
         IN shorter \cup {Append(q, x) : q \in {r \in shorter : Len(r) = n - 1}, x \in S}

MatcherPatternLists == SeqsUpTo(MatcherPatterns, MaxMatcherPatterns)

\* chunks the monitored child writes (a data event is never empty)
SessionChunks == {<<"A">>, <<"b">>}

\* pattern lists parseArguments can build: non-empty, of one type
SessionPatternLists ==
    {<<StringPattern(<<"a">>)>>,
     <<StringPattern(<<"a">>), StringPattern(<<"b">>)>>,
     <<StringPattern(<<"a">>), StringPattern(<<"a">>)>>,
     <<StringPattern(<<"a", "b">>)>>}

\* message, runCommand and npmScript are modelled by their presence
SessionConfigs ==
    {c \in [patterns : SessionPatternLists, message : BOOLEAN,
            runCommand : BOOLEAN, npmScript : BOOLEAN] :
        c.message \/ c.runCommand \/ c.npmScript}

\* the `code` argument of the child's 'exit' event: a number, null when the
\* child was terminated by a signal, or undefined (the handler's guards
\* test for it)
ChildExitCodes == {"0", "1", "2", "127", "null", "undefined"}

\* the `code` argument of an action subprocess's 'exit' event
ActionExitCodes == {"0", "1"}

Signals == {"SIGINT", "SIGTERM"}

ActionNames == {"run", "npm"}

Piece(src, text) == [src |-> src, text |-> text]

MessageText == <<"message", "\n">>
ActionOutText == <<"action stdout">>
ActionErrText == <<"action stderr">>
CommandFailedText == <<"Command failed">>
FailedToExecuteText == <<"Failed to execute">>
NotFoundText == <<"Failed to start command: Command not found", "\n">>
FailedToStartText == <<"Failed to start command: ", "error.message", "\n">>

----------------------------------------------------------------------------
(* State after construction *)

MatcherInit ==
    /\ foundPatterns = {}
    /\ matcherAllPatternsFound = FALSE
    /\ calls = <<>>
    /\ returns = <<>>

\* run(): createOutputBuffer, let allPatternsFound = false, spawn, handlers
SessionInit ==
    /\ outputBuffer = <<>>
    /\ errorBuffer = <<>>
    /\ actionOutputBuffer = <<>>
    /\ actionErrorBuffer = <<>>
    /\ realStdout = <<>>
    /\ realStderr = <<>>
    /\ allPatternsFound = FALSE
    /\ childExitCode = "none"
    /\ childSignals = <<>>
    /\ pc = "idle"
    /\ decision = "none"
    /\ pendingExitCode = -1
    /\ actions = [a \in ActionNames |->
                    [state |-> "idle", stdout |-> <<>>, stderr |-> <<>>, n |-> 0]]
    /\ execCount = [a \in {"message", "run", "npm"} |-> 0]
    /\ timers = <<>>
    /\ procState = "alive"
    /\ procExitCode = -1
    /\ exitPath = "none"

NoExecArgs == [command |-> <<>>, args |-> <<>>, captureOutput |-> FALSE]

\* executeCommand has not been called: nothing spawned, no promise
NoExecChild ==
    [called |-> FALSE, executable |-> <<>>, executableArgs |-> <<>>,
     stdio |-> <<>>, promise |-> "none", stdout |-> <<>>, stderr |-> <<>>,
     n |-> 0, code |-> "none", message |-> <<>>]

\* nothing has been called on its own yet
ToolInit ==
    /\ undefinedReturns = <<>>
    /\ argv = <<>>
    /\ execArgs = NoExecArgs
    /\ execChild = NoExecChild

Init ==
    /\ config \in SessionConfigs
    /\ MatcherInit
    /\ SessionInit
    /\ ToolInit
    /\ childState \in {"running", "spawnFailed"}

\* the inputs received so far: chunks of the child, chunks of the action
\* subprocesses, and signals
inputs ==
    Len(calls) + Len(childSignals) + actions["run"].n + actions["npm"].n

----------------------------------------------------------------------------
(* process.exit *)

processExit(code, path) ==
    /\ procState' = "exited"
    /\ procExitCode' = code
    /\ exitPath' = path

----------------------------------------------------------------------------
(* run: the 'data' handlers of child.stdout and child.stderr *)

\* forwarding withheld once the matcher is complete
forwardChunkUntilComplete(stream, output) ==
    IF matcherAllPatternsFound THEN stream
    ELSE Append(stream, Piece("child", output))

\* process.stdout.write(output) / process.stderr.write(output) of a chunk
forwardChunk(stream, output) == Append(stream, Piece("child", output))

\* a data handler that records the message as soon as the match completes
afterMatchRunsMessage(allFound) ==
    IF allFound /\ config.message
    THEN /\ actionOutputBuffer' =
               Append(actionOutputBuffer, Piece("message", MessageText))
         /\ execCount' = [execCount EXCEPT !["message"] = @ + 1]
    ELSE UNCHANGED <<actionOutputBuffer, execCount>>

\* a data handler that records the message when the match completes after
\* the child's 'exit' event
afterMatchRunsMessageAfterExit(allFound) ==
    IF allFound /\ config.message /\ childState = "exited"
    THEN /\ actionOutputBuffer' =
               Append(actionOutputBuffer, Piece("message", MessageText))
         /\ execCount' = [execCount EXCEPT !["message"] = @ + 1]
    ELSE UNCHANGED <<actionOutputBuffer, execCount>>

\* the body of `if (allFound && !allPatternsFound)` sets the flag and
\* touches nothing else: no action is recorded or started here
afterMatch(allFound) == UNCHANGED <<actionOutputBuffer, execCount>>

\* a handler whose flag follows the value of the latest checkPatterns call
checkChunkLatestResult(output) ==
    LET r == checkPatterns(foundPatterns, matcherAllPatternsFound,
                           config.patterns, output)
    IN /\ foundPatterns' = r.found
       /\ matcherAllPatternsFound' = r.complete
       /\ calls' = Append(calls, output)
       /\ returns' = Append(returns, r.ret)
       /\ allPatternsFound' = r.ret
       /\ afterMatch(r.ret)

\* a handler that matches the chunk together with the chunk before it
checkChunkWithCarryOver(output) ==
    LET text == IF calls = <<>> THEN output ELSE calls[Len(calls)] \o output
        r == checkPatterns(foundPatterns, matcherAllPatternsFound,
                           config.patterns, text)
    IN /\ foundPatterns' = r.found
       /\ matcherAllPatternsFound' = r.complete
       /\ calls' = Append(calls, output)
       /\ returns' = Append(returns, r.ret)
       /\ allPatternsFound' =
            IF r.ret /\ ~allPatternsFound THEN TRUE ELSE allPatternsFound
       /\ afterMatch(r.ret)

\* const allFound = patternMatcher.checkPatterns(output);
\* if (allFound && !allPatternsFound) allPatternsFound = true;
checkChunk(output) ==
    LET r == checkPatterns(foundPatterns, matcherAllPatternsFound,
                           config.patterns, output)
    IN /\ foundPatterns' = r.found
       /\ matcherAllPatternsFound' = r.complete
       /\ calls' = Append(calls, output)
       /\ returns' = Append(returns, r.ret)
       /\ allPatternsFound' =
            IF r.ret /\ ~allPatternsFound THEN TRUE ELSE allPatternsFound
       /\ afterMatch(r.ret)

\* The streams may still deliver chunks after the 'exit' event.
OnStdoutData(c) ==
    /\ procState = "alive"
    /\ childState \in {"running", "exited"}
    /\ inputs < MaxInputs
    /\ outputBuffer' = Append(outputBuffer, Piece("child", c))
    /\ realStdout' = forwardChunk(realStdout, c)
    /\ checkChunk(c)
    /\ UNCHANGED <<toolVars, config, errorBuffer, actionErrorBuffer,
                   realStderr, childState, childExitCode, childSignals, pc,
                   decision, pendingExitCode, actions, timers,
                   procState, procExitCode, exitPath>>

\* a stderr handler that forwards the chunk without giving it to the matcher
OnStderrDataUnmonitored(c) ==
    /\ procState = "alive"
    /\ childState \in {"running", "exited"}
    /\ inputs < MaxInputs
    /\ errorBuffer' = Append(errorBuffer, Piece("child", c))
    /\ realStderr' = forwardChunk(realStderr, c)
    /\ UNCHANGED <<toolVars, config, matcherVars, allPatternsFound, outputBuffer,
                   actionOutputBuffer, actionErrorBuffer, execCount,
                   realStdout, childState, childExitCode, childSignals, pc,
                   decision, pendingExitCode, actions, timers,
                   procState, procExitCode, exitPath>>

\* child.stderr.on('data', ...)
OnStderrData(c) ==
    /\ procState = "alive"
    /\ childState \in {"running", "exited"}
    /\ inputs < MaxInputs
    /\ errorBuffer' = Append(errorBuffer, Piece("child", c))
    /\ realStderr' = forwardChunk(realStderr, c)
    /\ checkChunk(c)
    /\ UNCHANGED <<toolVars, config, outputBuffer, actionErrorBuffer,
                   realStdout, childState, childExitCode, childSignals, pc,
                   decision, pendingExitCode, actions, timers,
                   procState, procExitCode, exitPath>>

----------------------------------------------------------------------------
(* determineExitCode, finalizeOutput *)

\* any status other than 0 is a failure, undefined included
determineExitCodeStrict(code) ==
    IF code # "0" THEN 1 ELSE 0

determineExitCode(code) ==
    IF code # "0" /\ code # "undefined" THEN 1 ELSE 0

\* if (additionalOutput) process.stdout.write(additionalOutput)
writeAdditional(stream, additional) ==
    IF additional # <<>> THEN stream \o additional ELSE stream

\* an exit code that also reflects a failed action
handlerExitCodeWithActions(code) ==
    IF \E a \in ActionNames : actions[a].state = "rejected"
    THEN 1
    ELSE determineExitCode(code)

\* the exit code the 'exit' handler hands to finalizeOutput
handlerExitCode(code) == determineExitCode(code)

\* a handler that ends after writing the buffers, without the setImmediate
\* and the process.exit of finalizeOutput
finishExitHandlerWithoutExit(code, aOut, aErr, out, err) ==
    LET aErr2 == IF code # "0" /\ code # "undefined"
                    /\ (code = "127" \/ code = "1")
                 THEN Append(aErr, Piece("supervisor", NotFoundText))
                 ELSE aErr
    IN /\ actionOutputBuffer' = aOut
       /\ actionErrorBuffer' = aErr2
       /\ realStdout' = writeAdditional(out, aOut)
       /\ realStderr' = writeAdditional(err, aErr2)
       /\ pendingExitCode' = handlerExitCode(code)
       /\ pc' = "done"

\* The 'exit' handler from the command-not-found test to the await inside
\* finalizeOutput, given the buffers and streams as the actions left them.
finishExitHandler(code, aOut, aErr, out, err) ==
    LET aErr2 == IF code # "0" /\ code # "undefined"
                    /\ (code = "127" \/ code = "1")
                 THEN Append(aErr, Piece("supervisor", NotFoundText))
                 ELSE aErr
    IN /\ actionOutputBuffer' = aOut
       /\ actionErrorBuffer' = aErr2
       /\ realStdout' = writeAdditional(out, aOut)
       /\ realStderr' = writeAdditional(err, aErr2)
       /\ pendingExitCode' = handlerExitCode(code)
       /\ pc' = "awaitImmediate"

\* finalizeOutput after `await new Promise(setImmediate)`: process.exit(exitCode)
OnImmediate ==
    /\ procState = "alive"
    /\ pc = "awaitImmediate"
    /\ pc' = "done"
    /\ processExit(pendingExitCode, "normal")
    /\ UNCHANGED <<toolVars, config, matcherVars, outputBuffer, errorBuffer,
                   actionOutputBuffer, actionErrorBuffer, realStdout,
                   realStderr, allPatternsFound, childState, childExitCode,
                   childSignals, decision, pendingExitCode, actions,
                   execCount, timers>>

----------------------------------------------------------------------------
(* executeActionsWhenPatternsFound, executeCommand *)

\* both subprocesses are spawned together
startActionBoth(acts, a) ==
    [acts EXCEPT !["run"].state = "running", !["npm"].state = "running"]

\* executeCommand: spawn(executable, executableArgs, ...)
startAction(acts, a) == [acts EXCEPT ![a].state = "running"]

\* the npm script is never started
npmStepSkipped(code, aOut, aErr, out, err, acts, cnt) ==
    /\ actions' = acts
    /\ execCount' = cnt
    /\ finishExitHandler(code, aOut, aErr, out, err)

\* the npm script is started but not awaited
npmStepNotAwaited(code, aOut, aErr, out, err, acts, cnt) ==
    IF config.npmScript
    THEN /\ actions' = startAction(acts, "npm")
         /\ execCount' = [cnt EXCEPT !["npm"] = @ + 1]
         /\ finishExitHandler(code, aOut, aErr, out, err)
    ELSE /\ actions' = acts
         /\ execCount' = cnt
         /\ finishExitHandler(code, aOut, aErr, out, err)

\* executeActionsWhenPatternsFound from `if (config.npmScript)` on, then the
\* rest of the 'exit' handler when no npm script has to be awaited.
npmStep(code, aOut, aErr, out, err, acts, cnt) ==
    IF config.npmScript
    THEN /\ actions' = startAction(acts, "npm")
         /\ execCount' = [cnt EXCEPT !["npm"] = @ + 1]
         /\ pc' = "awaitNpm"
         /\ actionOutputBuffer' = aOut
         /\ actionErrorBuffer' = aErr
         /\ realStdout' = out
         /\ realStderr' = err
         /\ UNCHANGED pendingExitCode
    ELSE /\ actions' = acts
         /\ execCount' = cnt
         /\ finishExitHandler(code, aOut, aErr, out, err)

\* the actions run whether or not the flag was raised
shouldRunActionsAlways == TRUE

\* the actions are dropped once a termination signal has been received
shouldRunActionsUnlessSignalled == allPatternsFound /\ childSignals = <<>>

\* `if (allPatternsFound)` in the 'exit' handler
shouldRunActions == allPatternsFound

\* child.on('exit', async (code) => ...) up to its first suspension
OnChildExit(code) ==
    /\ procState = "alive"
    /\ childState = "running"
    /\ pc = "idle"
    /\ childState' = "exited"
    /\ childExitCode' = code
    /\ decision' = IF allPatternsFound THEN "run" ELSE "skip"
    /\ IF shouldRunActions
       THEN LET aOut1 == IF config.message
                         THEN Append(actionOutputBuffer,
                                     Piece("message", MessageText))
                         ELSE actionOutputBuffer
                cnt1 == IF config.message
                        THEN [execCount EXCEPT !["message"] = @ + 1]
                        ELSE execCount
            IN IF config.runCommand
               THEN /\ actions' = startAction(actions, "run")
                    /\ execCount' = [cnt1 EXCEPT !["run"] = @ + 1]
                    /\ pc' = "awaitRun"
                    /\ actionOutputBuffer' = aOut1
                    /\ UNCHANGED <<actionErrorBuffer, realStdout, realStderr,
                                   pendingExitCode>>
               ELSE npmStep(code, aOut1, actionErrorBuffer, realStdout,
                            realStderr, actions, cnt1)
       ELSE /\ actions' = actions
            /\ execCount' = execCount
            /\ finishExitHandler(code, actionOutputBuffer, actionErrorBuffer,
                                 realStdout, realStderr)
    /\ UNCHANGED <<toolVars, config, matcherVars, outputBuffer, errorBuffer,
                   allPatternsFound, childSignals, timers, procState,
                   procExitCode, exitPath>>

\* what follows the settled await of action a in the 'exit' handler
afterAction(a, aOut, aErr, out, err, acts) ==
    IF a = "run"
    THEN npmStep(childExitCode, aOut, aErr, out, err, acts, execCount)
    ELSE /\ actions' = acts
         /\ execCount' = execCount
         /\ finishExitHandler(childExitCode, aOut, aErr, out, err)

awaited(a) == IF a = "run" THEN pc = "awaitRun" ELSE pc = "awaitNpm"

\* executeCommand, captureOutput without onStdout: child.stdout.on('data').
\* The promise settles on the subprocess's 'exit' event, which does not wait
\* for its pipes: a subprocess that has exited may still deliver a chunk,
\* and the handler still writes it.  A subprocess that failed to spawn
\* delivers nothing; the state "rejected" covers it together with a
\* non-zero exit, so late chunks are taken after a status 0 exit only.
ActionStdout(a) ==
    /\ procState = "alive"
    /\ actions[a].state \in {"running", "resolved"}
    /\ inputs < MaxInputs
    /\ actions' = [actions EXCEPT ![a].stdout = Append(@, Piece(a, ActionOutText)),
                                  ![a].n = @ + 1]
    /\ realStdout' = Append(realStdout, Piece(a, ActionOutText))
    /\ UNCHANGED <<toolVars, config, matcherVars, outputBuffer, errorBuffer,
                   actionOutputBuffer, actionErrorBuffer, realStderr,
                   allPatternsFound, childState, childExitCode, childSignals,
                   pc, decision, pendingExitCode, execCount, timers,
                   procState, procExitCode, exitPath>>

\* executeCommand: child.stderr.on('data')
ActionStderr(a) ==
    /\ procState = "alive"
    /\ actions[a].state \in {"running", "resolved"}
    /\ inputs < MaxInputs
    /\ actions' = [actions EXCEPT ![a].stderr = Append(@, Piece(a, ActionErrText)),
                                  ![a].n = @ + 1]
    /\ realStderr' = Append(realStderr, Piece(a, ActionErrText))
    /\ UNCHANGED <<toolVars, config, matcherVars, outputBuffer, errorBuffer,
                   actionOutputBuffer, actionErrorBuffer, realStdout,
                   allPatternsFound, childState, childExitCode, childSignals,
                   pc, decision, pendingExitCode, execCount, timers,
                   procState, procExitCode, exitPath>>

\* a failed action that leaves no trace on the error stream
logFailureSilent(a, err) == err

\* the two console.error calls of a failed action: the one in executeCommand
\* and the one in the catch block of executeActionsWhenPatternsFound
logFailure(a, err) ==
    err \o <<Piece(a, CommandFailedText), Piece(a, FailedToExecuteText)>>

\* executeCommand: child.on('exit'), and the continuation of the awaiting
\* 'exit' handler of the monitored child
ActionExit(a, code) ==
    /\ procState = "alive"
    /\ actions[a].state = "running"
    /\ awaited(a)
    /\ IF code = "0"
       THEN afterAction(a,
                IF actions[a].stdout # <<>>
                THEN actionOutputBuffer \o actions[a].stdout
                ELSE actionOutputBuffer,
                IF actions[a].stderr # <<>>
                THEN actionErrorBuffer \o actions[a].stderr
                ELSE actionErrorBuffer,
                realStdout, realStderr,
                [actions EXCEPT ![a].state = "resolved"])
       ELSE afterAction(a, actionOutputBuffer, actionErrorBuffer,
                realStdout, logFailure(a, realStderr),
                [actions EXCEPT ![a].state = "rejected"])
    /\ UNCHANGED <<toolVars, config, matcherVars, outputBuffer, errorBuffer,
                   allPatternsFound, childState, childExitCode, childSignals,
                   decision, timers, procState, procExitCode, exitPath>>

\* executeCommand: child.on('error'), the subprocess could not be spawned
ActionError(a) ==
    /\ procState = "alive"
    /\ actions[a].state = "running"
    /\ actions[a].n = 0
    /\ awaited(a)
    /\ afterAction(a, actionOutputBuffer, actionErrorBuffer,
            realStdout, logFailure(a, realStderr),
            [actions EXCEPT ![a].state = "rejected"])
    /\ UNCHANGED <<toolVars, config, matcherVars, outputBuffer, errorBuffer,
                   allPatternsFound, childState, childExitCode, childSignals,
                   decision, timers, procState, procExitCode, exitPath>>

----------------------------------------------------------------------------
(* handleChildProcessError, setupSignalHandling *)

\* buffer.addToError(...); write getOutput() and getError(); process.exit(1)
handleChildProcessError ==
    /\ actionErrorBuffer' =
          Append(actionErrorBuffer, Piece("supervisor", FailedToStartText))
    /\ realStdout' = realStdout \o outputBuffer
    /\ realStderr' = realStderr \o errorBuffer
    /\ processExit(1, "error")

\* child.on('error') when the command could not be spawned: the event is
\* emitted before any other event of the session
OnChildError ==
    /\ procState = "alive"
    /\ childState = "spawnFailed"
    /\ handleChildProcessError
    /\ UNCHANGED <<toolVars, config, matcherVars, outputBuffer, errorBuffer,
                   actionOutputBuffer, allPatternsFound, childState,
                   childExitCode, childSignals, pc, decision,
                   pendingExitCode, actions, execCount, timers>>

signalExitCode(signal) == IF signal = "SIGINT" THEN 130 ELSE 143

\* handleSignal: childProcess.kill(signal), then setTimeout(..., 500).
\* kill() on a running child that cannot be signalled emits 'error' on the
\* child synchronously, which runs handleChildProcessError.
OnSignal(signal, killFails) ==
    /\ procState = "alive"
    /\ childState # "spawnFailed"
    /\ inputs < MaxInputs
    /\ childSignals' = Append(childSignals, signal)
    /\ IF childState = "running" /\ killFails
       THEN /\ handleChildProcessError
            /\ UNCHANGED timers
       ELSE /\ timers' = Append(timers, signal)
            /\ UNCHANGED <<actionErrorBuffer, realStdout, realStderr,
                           procState, procExitCode, exitPath>>
    /\ UNCHANGED <<toolVars, config, matcherVars, outputBuffer, errorBuffer,
                   actionOutputBuffer, allPatternsFound, childState,
                   childExitCode, pc, decision, pendingExitCode, actions,
                   execCount>>

\* a grace timer that only ends the process once the child has exited
OnTimerAfterChildExit ==
    /\ procState = "alive"
    /\ timers # <<>>
    /\ childState = "exited"
    /\ timers' = Tail(timers)
    /\ processExit(signalExitCode(Head(timers)), "signal")
    /\ UNCHANGED <<toolVars, config, matcherVars, outputBuffer, errorBuffer,
                   actionOutputBuffer, actionErrorBuffer, realStdout,
                   realStderr, allPatternsFound, childState, childExitCode,
                   childSignals, pc, decision, pendingExitCode, actions,
                   execCount>>

\* the setTimeout callback of handleSignal; equal delays fire in order
OnTimer ==
    /\ procState = "alive"
    /\ timers # <<>>
    /\ timers' = Tail(timers)
    /\ processExit(signalExitCode(Head(timers)), "signal")
    /\ UNCHANGED <<toolVars, config, matcherVars, outputBuffer, errorBuffer,
                   actionOutputBuffer, actionErrorBuffer, realStdout,
                   realStderr, allPatternsFound, childState, childExitCode,
                   childSignals, pc, decision, pendingExitCode, actions,
                   execCount>>

----------------------------------------------------------------------------
(* The session *)

Next ==
    \/ \E c \in SessionChunks : OnStdoutData(c)
    \/ \E c \in SessionChunks : OnStderrData(c)
    \/ \E code \in ChildExitCodes : OnChildExit(code)
    \/ OnChildError
    \/ \E a \in ActionNames : ActionStdout(a)
    \/ \E a \in ActionNames : ActionStderr(a)
    \/ \E a \in ActionNames, code \in ActionExitCodes : ActionExit(a, code)
    \/ \E a \in ActionNames : ActionError(a)
    \/ \E signal \in Signals, killFails \in BOOLEAN : OnSignal(signal, killFails)
    \/ OnTimer
    \/ OnImmediate

Spec == Init /\ [][Next]_vars

\* A pending timer fires and a pending setImmediate callback runs: the event
\* loop keeps turning while the supervising process is alive.
LiveSpec == Spec /\ WF_vars(OnTimer) /\ WF_vars(OnImmediate)

\* executeCommand: the 'exit' or the 'error' event of a started subprocess
ActionSettles ==
    \E a \in ActionNames :
        \/ \E code \in ActionExitCodes : ActionExit(a, code)
        \/ ActionError(a)

\* a session that watches for a single pattern: what follows the child's
\* exit event depends on the flag, not on how many patterns raised it
SettlingInit == Init /\ Len(config.patterns) = 1

\* The sessions in which the event loop keeps turning and every action
\* subprocess that is started eventually exits or fails to spawn.
SettlingSpec ==
    /\ SettlingInit /\ [][Next]_vars
    /\ WF_vars(OnTimer) /\ WF_vars(OnImmediate) /\ WF_vars(ActionSettles)

----------------------------------------------------------------------------
(* A stand-alone matcher: createPatternMatcher(config), then checkPatterns *)

MatcherSpecInit ==
    /\ config \in [patterns : MatcherPatternLists, message : {TRUE},
                   runCommand : {FALSE}, npmScript : {FALSE}]
    /\ MatcherInit
    /\ SessionInit
    /\ ToolInit
    /\ childState = "running"

CheckPatternsCall(c) ==
    /\ Len(calls) + Len(undefinedReturns) < MaxCalls
    /\ LET r == checkPatterns(foundPatterns, matcherAllPatternsFound,
                              config.patterns, c)
       IN /\ foundPatterns' = r.found
          /\ matcherAllPatternsFound' = r.complete
          /\ calls' = Append(calls, c)
          /\ returns' = Append(returns, r.ret)
    /\ UNCHANGED <<toolVars, config, sessionVars>>

MatcherNext == \E c \in MatcherChunks : CheckPatternsCall(c)

MatcherSpec == MatcherSpecInit /\ [][MatcherNext]_vars

\* matcher.checkPatterns(undefined) on a stand-alone matcher
CheckPatternsUndefined ==
    /\ Len(calls) + Len(undefinedReturns) < MaxCalls
    /\ LET r == checkPatternsUndefined(foundPatterns, matcherAllPatternsFound,
                                       config.patterns)
       IN /\ foundPatterns' = r.found
          /\ matcherAllPatternsFound' = r.complete
          /\ undefinedReturns' = Append(undefinedReturns, r.ret)
    /\ UNCHANGED <<argv, execArgs, execChild, config, calls, returns,
                   sessionVars>>

UndefinedNext ==
    \/ \E c \in MatcherChunks : CheckPatternsCall(c)
    \/ CheckPatternsUndefined

\* a stand-alone matcher that is also given undefined chunks
UndefinedSpec == MatcherSpecInit /\ [][UndefinedNext]_vars

----------------------------------------------------------------------------
(* parseArguments *)

MaxArgs == 6          \* longest argument list given to parseArguments
MaxPatternText == 4   \* longest value given to --patterns / --strings

startsWith(s, prefix) ==
    Len(s) >= Len(prefix) /\ SubSeq(s, 1, Len(prefix)) = prefix

\* String.prototype.slice(n) and Array.prototype.slice(n), n counted from 0
slice(s, n) == SubSeq(s, n + 1, Len(s))

ValueOptions == {"patterns", "strings", "run", "npm", "message"}

\* the options table given to parseArgs: long name and short name
LongText ==
    [patterns |-> <<"p", "a", "t", "t", "e", "r", "n", "s">>,
     strings |-> <<"s", "t", "r", "i", "n", "g", "s">>,
     run |-> <<"r", "u", "n">>,
     npm |-> <<"n", "p", "m">>,
     message |-> <<"m", "e", "s", "s", "a", "g", "e">>,
     help |-> <<"h", "e", "l", "p">>]

ShortText ==
    [patterns |-> <<"p">>, strings |-> <<"s">>, run |-> <<"r">>,
     npm |-> <<"n">>, message |-> <<"m">>, help |-> <<"h">>]

optionsWithValues ==
    {ShortText[o] : o \in ValueOptions} \cup {LongText[o] : o \in ValueOptions}

\* The loop of findCommandStartIndex from index i on (indices from 0):
\* the index of the first argument that does not start with '-' and was
\* not skipped as the value of an option, or -1.
RECURSIVE findCommandStartFrom(_, _)
findCommandStartFrom(args, i) ==
    IF i >= Len(args) THEN -1
    ELSE LET arg == args[i + 1]
         IN IF ~startsWith(arg, <<"-">>) THEN i
            ELSE IF startsWith(arg, <<"-", "-">>)
            THEN IF slice(arg, 2) \in optionsWithValues
                 THEN findCommandStartFrom(args, i + 2)
                 ELSE findCommandStartFrom(args, i + 1)
            ELSE IF Len(arg) > 1 /\ slice(arg, 1) \in optionsWithValues
            THEN findCommandStartFrom(args, i + 2)
            ELSE findCommandStartFrom(args, i + 1)

\* a variant that takes the last argument for the command
findCommandStartLast(args) ==
    IF Len(args) > 0 /\ ~startsWith(args[Len(args)], <<"-">>)
    THEN Len(args) - 1
    ELSE -1

findCommandStartIndex(args) == findCommandStartFrom(args, 0)

\* the option a token of the forms -x and --name stands for, "none" for
\* any other token (a positional or an unknown option: parseArgs throws)
optionOf(tok) ==
    IF Len(tok) = 2 /\ tok[1] = "-"
       /\ \E o \in DOMAIN ShortText : ShortText[o] = <<tok[2]>>
    THEN CHOOSE o \in DOMAIN ShortText : ShortText[o] = <<tok[2]>>
    ELSE IF startsWith(tok, <<"-", "-">>)
            /\ \E o \in DOMAIN LongText : LongText[o] = slice(tok, 2)
    THEN CHOOSE o \in DOMAIN LongText : LongText[o] = slice(tok, 2)
    ELSE "none"

\* values of parseArgs: an option holds <<>> when absent, <<text>> when given
NoValues ==
    [patterns |-> <<>>, strings |-> <<>>, run |-> <<>>, npm |-> <<>>,
     message |-> <<>>, help |-> FALSE]

\* util.parseArgs (strict, allowPositionals: false) from token i on (from 1).
\* A string option takes the next token as its value; parseArgs throws
\* when there is none or when it looks like an option (starts with '-' and
\* is longer than one character).  A repeated option keeps the last value.
RECURSIVE parseArgsFrom(_, _, _)
parseArgsFrom(args, i, values) ==
    IF i > Len(args) THEN [ok |-> TRUE, values |-> values]
    ELSE LET o == optionOf(args[i])
         IN IF o = "none" THEN [ok |-> FALSE, values |-> values]
            ELSE IF o = "help"
            THEN parseArgsFrom(args, i + 1, [values EXCEPT !.help = TRUE])
            ELSE IF i = Len(args) THEN [ok |-> FALSE, values |-> values]
            ELSE IF Len(args[i + 1]) > 1 /\ args[i + 1][1] = "-"
            THEN [ok |-> FALSE, values |-> values]
            ELSE parseArgsFrom(args, i + 2,
                               [values EXCEPT ![o] = <<args[i + 1]>>])

parseArgs(args) == parseArgsFrom(args, 1, NoValues)

\* truthiness of an option value: given and not the empty string
truthy(v) == v # <<>> /\ v[1] # <<>>

UsageText == <<"run-on-output - Execute tasks when CLI output patterns are detected ...">>
ErrParsingText == <<"Error parsing arguments:", "error.message">>
ErrNoPatternsText == <<"Error: either --patterns or --strings is required">>
ErrBothText == <<"Error: cannot use both --patterns and --strings together">>
ErrNoCommandText == <<"Error: command to run is required">>
ErrNoActionText == <<"Error: either --run, --npm, or --message is required">>
WarnInvalidRegexText == <<"Warning: Invalid regex pattern, treating as literal string">>

\* validateArguments without the test that an action is configured
validateArgumentsNoActionCheck(values, positionals) ==
    IF values.help THEN [exit |-> 0, err |-> <<>>]
    ELSE IF ~truthy(values.patterns) /\ ~truthy(values.strings)
    THEN [exit |-> 1, err |-> ErrNoPatternsText]
    ELSE IF truthy(values.patterns) /\ truthy(values.strings)
    THEN [exit |-> 1, err |-> ErrBothText]
    ELSE IF Len(positionals) = 0
    THEN [exit |-> 1, err |-> ErrNoCommandText]
    ELSE [exit |-> -1, err |-> <<>>]

\* validateArguments: exit = -1 when it returns, otherwise the code it
\* exits with and the error it prints before the usage
validateArguments(values, positionals) ==
    IF values.help THEN [exit |-> 0, err |-> <<>>]
    ELSE IF ~truthy(values.patterns) /\ ~truthy(values.strings)
    THEN [exit |-> 1, err |-> ErrNoPatternsText]
    ELSE IF truthy(values.patterns) /\ truthy(values.strings)
    THEN [exit |-> 1, err |-> ErrBothText]
    ELSE IF Len(positionals) = 0
    THEN [exit |-> 1, err |-> ErrNoCommandText]
    ELSE IF ~truthy(values.run) /\ ~truthy(values.npm) /\ ~truthy(values.message)
    THEN [exit |-> 1, err |-> ErrNoActionText]
    ELSE [exit |-> -1, err |-> <<>>]

\* String.prototype.split(',')
RECURSIVE split(_, _)
split(s, sep) ==
    IF \E i \in 1..Len(s) : s[i] = sep
    THEN LET i == CHOOSE k \in 1..Len(s) :
                      s[k] = sep /\ \A j \in 1..(k - 1) : s[j] # sep
         IN <<SubSeq(s, 1, i - 1)>> \o split(SubSeq(s, i + 1, Len(s)), sep)
    ELSE <<s>>

WhiteSpace == {" ", "\t", "\n"}

\* String.prototype.trim
RECURSIVE trim(_)
trim(s) ==
    IF s = <<>> THEN s
    ELSE IF s[1] \in WhiteSpace THEN trim(SubSeq(s, 2, Len(s)))
    ELSE IF s[Len(s)] \in WhiteSpace THEN trim(SubSeq(s, 1, Len(s) - 1))
    ELSE s

\* the character class of the replaceAll in createPatternsFromValues
RegexMeta ==
    {".", "*", "+", "?", "^", "$", "{", "}", "(", ")", "|", "[", "]", "\\"}

\* pattern.replaceAll(/[.*+?^${}()|[\]\\]/g, String.raw`\$&`)
RECURSIVE escapeRegex(_)
escapeRegex(s) ==
    IF s = <<>> THEN s
    ELSE (IF s[1] \in RegexMeta THEN <<"\\", s[1]>> ELSE <<s[1]>>)
             \o escapeRegex(SubSeq(s, 2, Len(s)))

\* the fallback of the catch branch without the escaping
regexFromItemUnescaped(item) == RegexPattern(item)

\* the regex pattern built from one item of --patterns
regexFromItem(item) ==
    IF RegexInvalid(item)
    THEN RegexPattern(escapeRegex(item))
    ELSE RegexPattern(item)

\* createPatternsFromValues without the .map((pattern) => pattern.trim())
createPatternsUntrimmed(values) ==
    LET useStrings == truthy(values.strings)
        raw == IF truthy(values.patterns)
               THEN values.patterns[1] ELSE values.strings[1]
        rawPatterns == split(raw, ",")
    IN IF useStrings
       THEN [patterns |-> [i \in 1..Len(rawPatterns) |->
                              StringPattern(toLowerCase(rawPatterns[i]))],
             warnings |-> <<>>]
       ELSE [patterns |-> [i \in 1..Len(rawPatterns) |->
                              regexFromItem(rawPatterns[i])],
             warnings |-> [i \in 1..Cardinality({j \in 1..Len(rawPatterns) :
                                                    RegexInvalid(rawPatterns[j])})
                              |-> Piece("supervisor", WarnInvalidRegexText)]]

\* createPatternsFromValues: the pattern list and the warnings it prints
createPatternsFromValues(values) ==
    LET useStrings == truthy(values.strings)
        raw == IF truthy(values.patterns)
               THEN values.patterns[1] ELSE values.strings[1]
        items == split(raw, ",")
        rawPatterns == [i \in 1..Len(items) |-> trim(items[i])]
    IN IF useStrings
       THEN [patterns |-> [i \in 1..Len(rawPatterns) |->
                              StringPattern(toLowerCase(rawPatterns[i]))],
             warnings |-> <<>>]
       ELSE [patterns |-> [i \in 1..Len(rawPatterns) |->
                              regexFromItem(rawPatterns[i])],
             warnings |-> [i \in 1..Cardinality({j \in 1..Len(rawPatterns) :
                                                    RegexInvalid(rawPatterns[j])})
                              |-> Piece("supervisor", WarnInvalidRegexText)]]

\* parseArguments(argv): either it returns a config (exit = -1) or the
\* process exits with the code exit; out and err are what it prints.
parseArguments(args) ==
    LET commandStartIndex == findCommandStartIndex(args)
        argsToParse == IF commandStartIndex = -1 THEN args
                       ELSE SubSeq(args, 1, commandStartIndex)
        positionals == IF commandStartIndex = -1 THEN <<>>
                       ELSE slice(args, commandStartIndex)
        parsed == parseArgs(argsToParse)
        usage == <<Piece("supervisor", UsageText)>>
    IN IF ~parsed.ok
       THEN [exit |-> 1, config |-> NoValues, out |-> usage,
             err |-> <<Piece("supervisor", ErrParsingText)>>]
       ELSE LET v == validateArguments(parsed.values, positionals)
            IN IF v.exit # -1
               THEN [exit |-> v.exit, config |-> NoValues, out |-> usage,
                     err |-> IF v.err = <<>> THEN <<>>
                             ELSE <<Piece("supervisor", v.err)>>]
               ELSE LET p == createPatternsFromValues(parsed.values)
                    IN [exit |-> -1,
                        config |-> [patterns |-> p.patterns,
                                    runCommand |-> parsed.values.run,
                                    npmScript |-> parsed.values.npm,
                                    message |-> parsed.values.message,
                                    command |-> positionals[1],
                                    args |-> slice(positionals, 1)],
                        out |-> <<>>,
                        err |-> p.warnings]

\* the tokens of the argument lists: -s -p --npm -h and a plain word
ParseTokens ==
    {<<"-", "s">>, <<"-", "p">>, <<"-", "h">>,
     <<"-", "-", "n", "p", "m">>, <<"a">>}

\* texts given as the value of --patterns / --strings
PatternTexts == SeqsUpTo({"a", "B", ",", "(", ".", " "}, MaxPatternText)

ArgvInputs ==
    SeqsUpTo(ParseTokens, MaxArgs)
        \cup {<<opt, text, <<"-", "m">>, <<"a">>, <<"a">>>> :
                 opt \in {<<"-", "s">>, <<"-", "p">>}, text \in PatternTexts}

\* before run() is called with the arguments argv
ParseInit ==
    /\ argv \in ArgvInputs
    /\ config = NoValues
    /\ MatcherInit
    /\ SessionInit
    /\ undefinedReturns = <<>>
    /\ execArgs = NoExecArgs
    /\ execChild = NoExecChild
    /\ childState = "unspawned"

\* run() up to the end of spawn: parseArguments, then the child is spawned
\* and its handlers installed; a process.exit inside parseArguments ends
\* the process before anything is spawned.
RunParse ==
    /\ procState = "alive"
    /\ childState = "unspawned"
    /\ LET r == parseArguments(argv)
       IN /\ realStdout' = realStdout \o r.out
          /\ realStderr' = realStderr \o r.err
          /\ IF r.exit = -1
             THEN /\ config' = r.config
                  /\ childState' \in {"running", "spawnFailed"}
                  /\ UNCHANGED <<procState, procExitCode, exitPath>>
             ELSE /\ processExit(r.exit, "arguments")
                  /\ UNCHANGED <<config, childState>>
    /\ UNCHANGED <<toolVars, matcherVars, outputBuffer, errorBuffer,
                   actionOutputBuffer, actionErrorBuffer, allPatternsFound,
                   childExitCode, childSignals, pc, decision, pendingExitCode,
                   actions, execCount, timers>>

ParseNext == RunParse

ParseSpec == ParseInit /\ [][ParseNext]_vars

----------------------------------------------------------------------------
(* executeCommand called on its own *)

MaxCommandLen == 4    \* longest command string given to executeCommand
MaxExecChunks == 2    \* chunks the subprocess of executeCommand writes

\* the words of s: its maximal runs of characters that are not white space
RECURSIVE words(_)
words(s) ==
    IF s = <<>> THEN <<>>
    ELSE IF s[1] \in WhiteSpace THEN words(SubSeq(s, 2, Len(s)))
    ELSE LET ends == {k \in 1..Len(s) :
                         /\ \A j \in 1..k : s[j] \notin WhiteSpace
                         /\ k = Len(s) \/ s[k + 1] \in WhiteSpace}
             k == CHOOSE e \in ends : TRUE
         IN <<SubSeq(s, 1, k)>> \o words(SubSeq(s, k + 1, Len(s)))

\* the command cut into its white-space separated words
commandPartsByWhiteSpace(command) ==
    IF words(command) = <<>> THEN <<<<>>>> ELSE words(command)

\* const parts = command.split(' ')
commandParts(command) == split(command, " ")

CommandTexts == SeqsUpTo({"e", " ", "\t"}, MaxCommandLen)

ExecInputs ==
    [command : CommandTexts, args : {<<>>, << <<"x">> >>},
     captureOutput : BOOLEAN]

ExecExitCodes == {"0", "1", "null"}

ExecInit ==
    /\ execArgs \in ExecInputs
    /\ execChild = NoExecChild
    /\ undefinedReturns = <<>>
    /\ argv = <<>>
    /\ config = NoValues
    /\ MatcherInit
    /\ SessionInit
    /\ childState = "unspawned"

\* executeCommand up to the return of the promise: split, spawn, handlers
ExecuteCommand ==
    /\ ~execChild.called
    /\ LET parts == commandParts(execArgs.command)
       IN execChild' =
              [execChild EXCEPT
                  !.called = TRUE,
                  !.executable = parts[1],
                  !.executableArgs = slice(parts, 1) \o execArgs.args,
                  !.stdio = IF execArgs.captureOutput
                            THEN <<"ignore", "pipe", "pipe">>
                            ELSE <<"ignore", "inherit", "inherit">>,
                  !.promise = "pending"]
    /\ UNCHANGED <<undefinedReturns, argv, execArgs, config, matcherVars,
                   sessionVars>>

\* child.stdout.on('data') with captureOutput and no onStdout callback
ExecStdout ==
    /\ execChild.promise = "pending"
    /\ execArgs.captureOutput
    /\ execChild.n < MaxExecChunks
    /\ execChild' = [execChild EXCEPT !.stdout = Append(@, ActionOutText),
                                      !.n = @ + 1]
    /\ realStdout' = Append(realStdout, Piece("run", ActionOutText))
    /\ UNCHANGED <<undefinedReturns, argv, execArgs, config, matcherVars,
                   outputBuffer, errorBuffer, actionOutputBuffer,
                   actionErrorBuffer, realStderr, allPatternsFound,
                   childState, childExitCode, childSignals, pc, decision,
                   pendingExitCode, actions, execCount, timers, procState,
                   procExitCode, exitPath>>

\* child.stderr.on('data') with captureOutput and no onStderr callback
ExecStderr ==
    /\ execChild.promise = "pending"
    /\ execArgs.captureOutput
    /\ execChild.n < MaxExecChunks
    /\ execChild' = [execChild EXCEPT !.stderr = Append(@, ActionErrText),
                                      !.n = @ + 1]
    /\ realStderr' = Append(realStderr, Piece("run", ActionErrText))
    /\ UNCHANGED <<undefinedReturns, argv, execArgs, config, matcherVars,
                   outputBuffer, errorBuffer, actionOutputBuffer,
                   actionErrorBuffer, realStdout, allPatternsFound,
                   childState, childExitCode, childSignals, pc, decision,
                   pendingExitCode, actions, execCount, timers, procState,
                   procExitCode, exitPath>>

\* an 'exit' handler that resolves the promise whatever the exit status
settleOnExitAlwaysResolves(child, code) ==
    [child EXCEPT !.promise = "resolved", !.code = code]

\* child.on('exit'): resolve({stdout, stderr}) when code is 0, otherwise
\* reject(new Error(`Command failed: exit code ${code}`))
settleOnExit(child, code) ==
    IF code = "0"
    THEN [child EXCEPT !.promise = "resolved", !.code = code]
    ELSE [child EXCEPT !.promise = "rejected", !.code = code,
                       !.message = <<"Command failed: exit code ", code>>]

\* child.on('error'): reject(error)
settleOnError(child) ==
    [child EXCEPT !.promise = "rejected", !.message = <<"error.message">>]

\* console.error(errorMessage) when options.captureOutput
logWhenCaptured(text) ==
    IF execArgs.captureOutput
    THEN realStderr' = Append(realStderr, Piece("run", text))
    ELSE realStderr' = realStderr

\* child.on('exit') of the subprocess
ExecExit(code) ==
    /\ execChild.promise = "pending"
    /\ execChild' = settleOnExit(execChild, code)
    /\ IF code = "0"
       THEN realStderr' = realStderr
       ELSE logWhenCaptured(<<"Command failed: exit code ", code>>)
    /\ UNCHANGED <<undefinedReturns, argv, execArgs, config, matcherVars,
                   outputBuffer, errorBuffer, actionOutputBuffer,
                   actionErrorBuffer, realStdout, allPatternsFound,
                   childState, childExitCode, childSignals, pc, decision,
                   pendingExitCode, actions, execCount, timers, procState,
                   procExitCode, exitPath>>

\* child.on('error'): the subprocess could not be spawned, no other event
\* of it precedes or follows
ExecError ==
    /\ execChild.promise = "pending"
    /\ execChild.n = 0
    /\ execChild' = settleOnError(execChild)
    /\ logWhenCaptured(<<"Command failed: ", "error.message">>)
    /\ UNCHANGED <<undefinedReturns, argv, execArgs, config, matcherVars,
                   outputBuffer, errorBuffer, actionOutputBuffer,
                   actionErrorBuffer, realStdout, allPatternsFound,
                   childState, childExitCode, childSignals, pc, decision,
                   pendingExitCode, actions, execCount, timers, procState,
                   procExitCode, exitPath>>

ExecNext ==
    \/ ExecuteCommand
    \/ ExecStdout
    \/ ExecStderr
    \/ \E code \in ExecExitCodes : ExecExit(code)
    \/ ExecError

ExecSpec == ExecInit /\ [][ExecNext]_vars

----------------------------------------------------------------------------
(* Properties *)

ActionKinds == {"message", "run", "npm"}

configured(a) ==
    CASE a = "message" -> config.message
      [] a = "run" -> config.runCommand
      [] a = "npm" -> config.npmScript

isChildPiece(p) == p.src = "child"
isActionPiece(p) == p.src \in ActionKinds

\* pattern i is matched by one of the first n chunks given to checkPatterns
matchedWithin(i, n) == \E k \in 1..n : isMatch(config.patterns[i], calls[k])

\* the found-set after the first n calls of a matcher that never stops adding
keysWithin(n) ==
    {patternKey(config.patterns[i]) :
        i \in {j \in 1..Len(config.patterns) : matchedWithin(j, n)}}

coveredWithin(n) == Cardinality(keysWithin(n)) = Len(config.patterns)

C2_CompleteIffAllMatched ==
    Len(config.patterns) > 0 =>
        (isComplete <=>
            \A i \in 1..Len(config.patterns) : matchedWithin(i, Len(calls)))

\* C3: at most one checkPatterns call returns true: the call on which the
\* found-set first covers the pattern list; every later call returns false,
\* also when its chunk matches every pattern again.
C3_TrueExactlyOnFirstCover ==
    /\ Cardinality({k \in 1..Len(returns) : returns[k]}) <= 1
    /\ \A k \in 1..Len(returns) :
          returns[k] <=>
              (coveredWithin(k) /\ \A j \in 1..(k - 1) : ~coveredWithin(j))

C3_Witness ==
    /\ Len(config.patterns) = 2
    /\ Len(returns) = 3
    /\ ~returns[1] /\ returns[2] /\ ~returns[3]
    /\ \A i \in 1..Len(config.patterns) : isMatch(config.patterns[i], calls[3])

\* C4: when the completion flag is not raised as the child's exit event is
\* handled, no action is executed, no text of an action reaches the real
\* stdout or stderr, and the handler goes straight to finalization.
C4_NoActionsWithoutCompletion ==
    decision = "skip" =>
        /\ \A a \in ActionKinds : execCount[a] = 0
        /\ \A a \in ActionNames : actions[a].state = "idle"
        /\ \A i \in 1..Len(realStdout) : ~isActionPiece(realStdout[i])
        /\ \A i \in 1..Len(realStderr) : ~isActionPiece(realStderr[i])
        /\ actionOutputBuffer = <<>>
        /\ pc \in {"awaitImmediate", "done"}

C4_Witness ==
    /\ decision = "skip"
    /\ exitPath = "normal"
    /\ config.message /\ config.runCommand /\ config.npmScript
    /\ allPatternsFound

\* C5: a chunk received on the child's stdout (stderr) is written to the
\* real stdout (stderr) in the step that receives it, whatever the state of
\* the matcher, and in arrival order: while the session has not taken the
\* child 'error' path the child's text on each real stream is the text
\* received on it.
C5_ForwardedOnReceipt ==
    [][ /\ \A c \in SessionChunks :
              /\ outputBuffer' = Append(outputBuffer, Piece("child", c))
                    => realStdout' = Append(realStdout, Piece("child", c))
              /\ errorBuffer' = Append(errorBuffer, Piece("child", c))
                    => realStderr' = Append(realStderr, Piece("child", c))
        /\ exitPath' # "error" =>
              /\ SelectSeq(realStdout', isChildPiece) = outputBuffer'
              /\ SelectSeq(realStderr', isChildPiece) = errorBuffer'
      ]_vars

C5_Witness ==
    /\ returns = <<TRUE, FALSE>>
    /\ Len(outputBuffer) = 1
    /\ Len(errorBuffer) = 1
    /\ SelectSeq(realStdout, isChildPiece) = outputBuffer
    /\ SelectSeq(realStderr, isChildPiece) = errorBuffer

\* C6: on every session path each chunk received from the child is on the
\* corresponding real stream exactly once.
C6_ChunksWrittenExactlyOnce ==
    /\ SelectSeq(realStdout, isChildPiece) = outputBuffer
    /\ SelectSeq(realStderr, isChildPiece) = errorBuffer

C8_ExitCodeDependsOnStatusOnly ==
    exitPath = "normal" => procExitCode = determineExitCode(childExitCode)

C8_Witness ==
    /\ exitPath = "normal"
    /\ childExitCode = "0"
    /\ procExitCode = 0
    /\ decision = "run"
    /\ actions["run"].state = "rejected"
    /\ actions["npm"].state = "resolved"

\* C9: once a signal was received and forwarded to the child, the
\* supervising process terminates with 130 (SIGINT) or 143 (SIGTERM),
\* whether or not the child exits in the meantime.
C9_SignalExitCode ==
    (procState = "exited" /\ childSignals # <<>> /\ exitPath # "error") =>
        procExitCode = signalExitCode(childSignals[1])

\* C10: once SIGINT or SIGTERM has been received the supervising process
\* eventually terminates, even if the child never exits and even if an
\* action subprocess never finishes.
C10_SignalLeadsToExit ==
    (childSignals # <<>>) ~> (procState = "exited")

C10_Witness ==
    /\ exitPath = "signal"
    /\ procExitCode = signalExitCode(childSignals[1])
    /\ \E a \in ActionNames : actions[a].state = "running"

settled(a) == actions[a].state \in {"resolved", "rejected"}

\* s ends with t
endsWith(s, t) ==
    /\ Len(s) >= Len(t)
    /\ SubSeq(s, Len(s) - Len(t) + 1, Len(s)) = t

\* C11 as stated: on every path to process exit, no started action is still
\* unsettled when the process terminates.
C11_NoExitWhileActionRunning ==
    procState = "exited" =>
        \A a \in ActionNames : actions[a].state # "running"

\* C11: the process terminates with a started action still unsettled only
\* through the grace timer of a received signal; the 'exit' handler's own
\* path to process.exit has awaited every action it started.
C11_OnlySignalExitCutsActions ==
    (procState = "exited" /\ exitPath # "signal") =>
        \A a \in ActionNames : actions[a].state # "running"

C11_Witness ==
    /\ exitPath = "normal"
    /\ settled("run")
    /\ settled("npm")
    /\ actions["npm"].n > 0

\* C12: a failed action (run command or npm script) is logged on the real
\* stderr and changes nothing else: after a failed run command the npm
\* script is started when configured, otherwise (and after a failed npm
\* script) the action buffers are flushed and the session finalizes with
\* the exit code derived from the child's exit status.
C12_ActionFailureOnlyLogged ==
    [][\A a \in ActionNames :
          (actions[a].state = "running" /\ actions'[a].state = "rejected") =>
              /\ \E i \in (Len(realStderr) + 1)..Len(realStderr') :
                     realStderr'[i] = Piece(a, CommandFailedText)
              /\ procState' = "alive"
              /\ IF a = "run" /\ config.npmScript
                 THEN /\ actions'["npm"].state = "running"
                      /\ execCount'["npm"] = 1
                      /\ pc' = "awaitNpm"
                 ELSE /\ pc' = "awaitImmediate"
                      /\ pendingExitCode' = determineExitCode(childExitCode)
                      /\ actionOutputBuffer' # <<>> =>
                             endsWith(realStdout', actionOutputBuffer')
                      /\ actionErrorBuffer' # <<>> =>
                             endsWith(realStderr', actionErrorBuffer')]_vars

C12_Witness ==
    /\ exitPath = "normal"
    /\ actions["run"].state = "rejected"
    /\ actions["npm"].state = "rejected"
    /\ config.message
    /\ \E i \in 1..Len(realStdout) :
           realStdout[i] = Piece("message", MessageText)
    /\ procExitCode = determineExitCode(childExitCode)

\* C13: actions run in the order message, run command, npm script: a run
\* command is started only once the configured message is recorded, an npm
\* script only once the configured run command has settled, and the two
\* subprocesses are never running at the same time.
C13_ActionsInFixedOrder ==
    /\ ~(actions["run"].state = "running" /\ actions["npm"].state = "running")
    /\ (actions["npm"].state # "idle" /\ config.runCommand) => settled("run")
    /\ (actions["run"].state # "idle" /\ config.message) =>
           /\ execCount["message"] = 1
           /\ \E i \in 1..Len(actionOutputBuffer) :
                  actionOutputBuffer[i] = Piece("message", MessageText)
    /\ (actions["npm"].state # "idle" /\ config.message) =>
           execCount["message"] = 1

C13_Witness ==
    /\ config.message
    /\ actions["npm"].state = "running"
    /\ settled("run")
    /\ actionOutputBuffer[1] = Piece("message", MessageText)

\* a piece of text an action generated: the message or a chunk of an action
\* subprocess (the failure logs of executeCommand are not action output)
isActionOutput(p) ==
    /\ p.src \in ActionKinds
    /\ p.text \in {MessageText, ActionOutText, ActionErrText}

occurrences(stream, p) ==
    Cardinality({i \in 1..Len(stream) : stream[i] = p})

\* C14: text generated by actions is on a real stream only once the 'exit'
\* handler has reached finalization, when every started action has settled.
C14_ActionTextOnlyAtFinalization ==
    \A stream \in {realStdout, realStderr} :
        (\E i \in 1..Len(stream) : isActionOutput(stream[i])) =>
            /\ pc \in {"awaitImmediate", "done"}
            /\ \A a \in ActionNames : actions[a].state # "running"

\* C15: when the session has finalized, each chunk an action subprocess
\* produced is on the real stdout/stderr exactly once.
C15_ActionChunksWrittenOnce ==
    exitPath = "normal" =>
        \A a \in ActionNames :
            /\ occurrences(realStdout, Piece(a, ActionOutText))
                   = Len(actions[a].stdout)
            /\ occurrences(realStderr, Piece(a, ActionErrText))
                   = Len(actions[a].stderr)

\* C16: on the real stdout no piece of the child's output comes after a
\* piece of action-generated text.
C16_ChildOutputBeforeActionText ==
    \A i, j \in 1..Len(realStdout) :
        (i < j /\ isActionOutput(realStdout[i])) =>
            ~isChildPiece(realStdout[j])

\* C17: when the child emits 'error' because the command cannot be started,
\* the process exits with code 1 and the failure-to-start text is on the
\* real stderr at that moment.
C17_SpawnErrorReported ==
    (childState = "spawnFailed" /\ exitPath = "error") =>
        /\ procExitCode = 1
        /\ \E i \in 1..Len(realStderr) :
               realStderr[i].text = FailedToStartText

\* C18: when the command does not exist (the child emitted 'error', or the
\* shell wrote its report on stderr, nothing on stdout, and exited with 127),
\* no chunk was given to the matcher and no action was executed.
C18_MissingCommandNeverMatched ==
    (\/ childState = "spawnFailed" /\ exitPath = "error"
     \/ childExitCode = "127" /\ outputBuffer = <<>> /\ errorBuffer # <<>>) =>
        /\ calls = <<>>
        /\ \A a \in ActionKinds : execCount[a] = 0

\* C19: once all patterns have been found, the configured actions have been
\* started, whether or not the child has exited.
C19_ActionsStartAtMatch ==
    (allPatternsFound /\ procState = "alive") =>
        \E a \in ActionKinds : configured(a) /\ execCount[a] >= 1

C21_BothStreamsFeedMatcher ==
    /\ Len(calls) = Len(outputBuffer) + Len(errorBuffer)
    /\ \A i \in 1..Len(errorBuffer) :
           occurrences(calls, errorBuffer[i].text)
               = Cardinality({j \in 1..Len(outputBuffer) :
                                 outputBuffer[j] = errorBuffer[i]})
                 + Cardinality({j \in 1..Len(errorBuffer) :
                                   errorBuffer[j] = errorBuffer[i]})
    /\ allPatternsFound = coveredWithin(Len(calls))
    /\ allPatternsFound = matcherAllPatternsFound

C21_Witness ==
    /\ Len(config.patterns) = 2
    /\ Len(outputBuffer) = 1
    /\ Len(errorBuffer) = 1
    /\ calls = <<outputBuffer[1].text, errorBuffer[1].text>>
    /\ returns = <<FALSE, TRUE>>
    /\ allPatternsFound

\* the patterns (by position) matched by one of the first n chunks
matchedSet(n) == {i \in 1..Len(config.patterns) : matchedWithin(i, n)}

distinctPatterns ==
    \A i, j \in 1..Len(config.patterns) :
        i # j => patternKey(config.patterns[i]) # patternKey(config.patterns[j])

\* chunk c matches pattern i of the list and no other
matchesOnly(c, i) ==
    \A j \in 1..Len(config.patterns) : isMatch(config.patterns[j], c) <=> j = i

\* C22: for two distinct patterns and two chunks each matching just one of
\* them, either order of the chunks gives false on the first call and true
\* on the second; in general, with distinct patterns, a call returns true
\* exactly when the set of patterns matched so far becomes the whole list,
\* whatever the order in which they were matched.
C22_CompletionIgnoresOrder ==
    distinctPatterns =>
        /\ (/\ Len(config.patterns) = 2
            /\ Len(calls) >= 2
            /\ \E i \in 1..2 : /\ matchesOnly(calls[1], i)
                               /\ matchesOnly(calls[2], 3 - i))
              => (~returns[1] /\ returns[2])
        /\ \A k \in 1..Len(calls) :
              returns[k] <=>
                  /\ matchedSet(k) = 1..Len(config.patterns)
                  /\ \A n \in 1..(k - 1) :
                         matchedSet(n) # 1..Len(config.patterns)

C22_Witness ==
    /\ config.patterns = <<StringPattern(<<"a">>), StringPattern(<<"b">>)>>
    /\ Len(calls) = 2
    /\ matchesOnly(calls[1], 2)
    /\ matchesOnly(calls[2], 1)
    /\ returns = <<FALSE, TRUE>>

\* value occurs in chunk at some offset, letter case of the chunk ignored
containsIgnoringCase(chunk, value) ==
    \E off \in 0..(Len(chunk) - Len(value)) :
        \A j \in 1..Len(value) : Lower(chunk[off + j]) = value[j]

\* the calls that reached the matching loop: those up to the completing one
examinedCalls ==
    IF \E k \in 1..Len(returns) : returns[k]
    THEN CHOOSE k \in 1..Len(returns) : returns[k]
    ELSE Len(calls)

\* C23: a string pattern is recorded as found exactly when one of the
\* examined chunks, lowercased, contains the pattern value as a substring;
\* with a single string pattern the first call returns true exactly then.
C23_StringMatchIsContainment ==
    /\ \A i \in 1..Len(config.patterns) :
           config.patterns[i].type = "string" =>
               (config.patterns[i].value \in foundPatterns <=>
                   \E k \in 1..examinedCalls :
                       containsIgnoringCase(calls[k], config.patterns[i].value))
    /\ (/\ Len(config.patterns) = 1
        /\ config.patterns[1].type = "string"
        /\ Len(calls) >= 1)
          => (returns[1] <=>
                 containsIgnoringCase(calls[1], config.patterns[1].value))

C23_Witness ==
    /\ config.patterns = <<StringPattern(<<"a">>)>>
    /\ calls = <<<<"A", "b">>>>
    /\ returns = <<TRUE>>
    /\ foundPatterns = {<<"a">>}

\* C24: a matcher with an empty pattern list is complete from construction,
\* before any call, and its first checkPatterns call returns true.
C24_EmptyListCompleteAtOnce ==
    Len(config.patterns) = 0 =>
        /\ isComplete
        /\ Len(returns) >= 1 => returns[1]

\* C25: every checkPatterns call with an undefined chunk throws, whatever
\* the pattern list and whatever the state of the matcher.
C25_UndefinedChunkThrows ==
    \A k \in 1..Len(undefinedReturns) : undefinedReturns[k] = "throw"

\* the arguments before the command, as parseArgs reads them
cmdIndex == findCommandStartIndex(argv)
optionTokens == IF cmdIndex = -1 THEN argv ELSE SubSeq(argv, 1, cmdIndex)
parsedOptions == parseArgs(optionTokens)
given(o) == parsedOptions.ok /\ truthy(parsedOptions.values[o])
helpGiven == parsedOptions.ok /\ parsedOptions.values.help

validArguments ==
    /\ parsedOptions.ok
    /\ given("patterns") # given("strings")
    /\ cmdIndex # -1
    /\ given("run") \/ given("npm") \/ given("message")

\* run() has gone through parseArguments
argumentsParsed == procState = "exited" \/ childState # "unspawned"
spawned == childState # "unspawned"

\* the error printed for the first requirement the arguments fail
expectedError ==
    IF ~parsedOptions.ok THEN ErrParsingText
    ELSE IF ~given("patterns") /\ ~given("strings") THEN ErrNoPatternsText
    ELSE IF given("patterns") /\ given("strings") THEN ErrBothText
    ELSE IF cmdIndex = -1 THEN ErrNoCommandText
    ELSE ErrNoActionText

RECURSIVE isOptionValue(_, _)
isOptionValue(args, k) ==
    /\ k > 1
    /\ startsWith(args[k - 1], <<"-">>)
    /\ \/ slice(args[k - 1], 1) \in optionsWithValues
       \/ slice(args[k - 1], 2) \in {LongText[o] : o \in ValueOptions}
    /\ ~isOptionValue(args, k - 1)

\* the tokens that do not begin with '-' and are not the value of an option
commandCandidates ==
    {k \in 1..Len(argv) :
        ~startsWith(argv[k], <<"-">>) /\ ~isOptionValue(argv, k)}

firstCandidate ==
    CHOOSE k \in commandCandidates : \A j \in commandCandidates : k <= j

\* C27: when parseArguments returns, command is the first token that does
\* not begin with '-' and is not the value of a preceding value-taking
\* option, and args holds every later token unchanged and in order, option
\* look-alikes included; the options are read from the tokens before it.
C27_CommandAndArgsVerbatim ==
    argumentsParsed =>
        IF /\ commandCandidates # {}
           /\ parseArgs(SubSeq(argv, 1, firstCandidate - 1)).ok
           /\ validateArguments(
                  parseArgs(SubSeq(argv, 1, firstCandidate - 1)).values,
                  <<argv[firstCandidate]>>).exit = -1
        THEN /\ spawned
             /\ config.command = argv[firstCandidate]
             /\ config.args = SubSeq(argv, firstCandidate + 1, Len(argv))
        ELSE ~spawned

C27_Witness ==
    /\ spawned
    /\ config.command = <<"a">>
    /\ config.args = << <<"-", "s">> >>
    /\ config.patterns = <<RegexPattern(<<"a">>)>>

\* the value of --patterns and its comma-separated items, trimmed
patternsText == parsedOptions.values.patterns[1]
patternItems ==
    LET items == split(patternsText, ",")
    IN [i \in 1..Len(items) |-> trim(items[i])]

\* texts a compiled pattern is tried on
ProbeTexts == SeqsUpTo({"a", "(", ".", "\\"}, 3)

\* text occurs in s, letter case ignored on both sides
occursIgnoringCase(s, text) ==
    \E off \in 0..(Len(s) - Len(text)) :
        \A j \in 1..Len(text) : Lower(s[off + j]) = Lower(text[j])

\* C28: an item of --patterns that is not a valid regular expression does
\* not stop parseArguments: the configuration has one pattern per
\* comma-separated item, the pattern of an invalid item matches exactly the
\* texts that contain the item literally (case ignored), one warning is
\* printed per invalid item, and a valid item keeps its source.
C28_InvalidRegexBecomesLiteral ==
    (argumentsParsed /\ validArguments /\ ~helpGiven /\ given("patterns")) =>
        /\ spawned
        /\ Len(config.patterns)
               = Cardinality({i \in 1..Len(patternsText) :
                                 patternsText[i] = ","}) + 1
        /\ \A i \in 1..Len(config.patterns) :
              /\ config.patterns[i].type = "regex"
              /\ IF \E j \in 1..Len(patternItems[i]) : patternItems[i][j] = "("
                 THEN \A s \in ProbeTexts :
                          RegexTest(config.patterns[i].value, s)
                              <=> occursIgnoringCase(s, patternItems[i])
                 ELSE config.patterns[i].value = patternItems[i]
        /\ Len(realStderr)
               = Cardinality({i \in 1..Len(patternItems) :
                                 \E j \in 1..Len(patternItems[i]) :
                                     patternItems[i][j] = "("})
        /\ \A i \in 1..Len(realStderr) :
               realStderr[i] = Piece("supervisor", WarnInvalidRegexText)

C28_Witness ==
    /\ spawned
    /\ argv[2] = <<"(", ".", ",", "a">>
    /\ config.patterns =
           <<RegexPattern(<<"\\", "(", "\\", ".">>), RegexPattern(<<"a">>)>>
    /\ realStderr = <<Piece("supervisor", WarnInvalidRegexText)>>

RECURSIVE join(_, _)
join(parts, sep) ==
    IF Len(parts) = 0 THEN <<>>
    ELSE IF Len(parts) = 1 THEN parts[1]
    ELSE parts[1] \o <<sep>> \o join(SubSeq(parts, 2, Len(parts)), sep)

\* what spawn was given, without the extra arguments appended at the end
spawnedParts ==
    <<execChild.executable>>
        \o SubSeq(execChild.executableArgs, 1,
                  Len(execChild.executableArgs) - Len(execArgs.args))

\* C30 as stated: the executable is the first white-space delimited word of
\* the command and the arguments given to spawn are the remaining words in
\* order, followed by the extra arguments.
C30_SplitOnWhiteSpace ==
    (execChild.called /\ words(execArgs.command) # <<>>) =>
        /\ execChild.executable = words(execArgs.command)[1]
        /\ execChild.executableArgs
               = Tail(words(execArgs.command)) \o execArgs.args

\* C30: executeCommand cuts the command at each single space character and
\* at nothing else: the executable followed by the arguments taken from the
\* command are the pieces between consecutive spaces (empty for a leading,
\* trailing or doubled space; a tab stays inside its piece), so joining
\* them with one space gives the command back; the extra arguments follow
\* in order.
C30_SplitOnEachSpace ==
    execChild.called =>
        /\ Len(execChild.executableArgs) >= Len(execArgs.args)
        /\ SubSeq(execChild.executableArgs,
                  Len(execChild.executableArgs) - Len(execArgs.args) + 1,
                  Len(execChild.executableArgs)) = execArgs.args
        /\ Len(spawnedParts)
               = Cardinality({i \in 1..Len(execArgs.command) :
                                 execArgs.command[i] = " "}) + 1
        /\ \A i \in 1..Len(spawnedParts) :
               \A j \in 1..Len(spawnedParts[i]) : spawnedParts[i][j] # " "
        /\ join(spawnedParts, " ") = execArgs.command

C30_Witness ==
    /\ execChild.called
    /\ execArgs.command = <<"e", " ", " ", "e">>
    /\ execChild.executable = <<"e">>
    /\ execChild.executableArgs = << <<>>, <<"e">>, <<"x">> >>

\* the value the pattern list is built from: --patterns when given,
\* otherwise --strings
listText ==
    IF given("patterns") THEN parsedOptions.values.patterns[1]
    ELSE parsedOptions.values.strings[1]

\* the positions of the commas of the value, in order, with a sentinel on
\* each side: item i lies strictly between bounds i and i + 1
commaBounds ==
    LET commas == {k \in 1..Len(listText) : listText[k] = ","}
        nth(i) == CHOOSE k \in commas :
                      Cardinality({j \in commas : j < k}) = i - 1
    IN [i \in 1..(Cardinality(commas) + 2) |->
           IF i = 1 THEN 0
           ELSE IF i = Cardinality(commas) + 2 THEN Len(listText) + 1
           ELSE nth(i - 1)]

\* item i without the white space around it: from its first to its last
\* character that is not white space
trimmedItem(i) ==
    LET inside == {k \in (commaBounds[i] + 1)..(commaBounds[i + 1] - 1) :
                      listText[k] \notin WhiteSpace}
    IN IF inside = {} THEN <<>>
       ELSE SubSeq(listText,
                   CHOOSE k \in inside : \A j \in inside : k <= j,
                   CHOOSE k \in inside : \A j \in inside : j <= k)

\* C31: the configuration parseArguments returns has one pattern per
\* comma-separated item of the option value, in order, empty items
\* included; each item is trimmed; with --strings the pattern is of type
\* string and its value is the item in lower case; with --patterns it is of
\* type regex, compiled with exactly the flag 'i', and keeps the trimmed
\* item as its source when the item is a valid regular expression.
C31_PatternListFromItems ==
    spawned =>
        /\ Len(config.patterns) = Len(commaBounds) - 1
        /\ \A i \in 1..Len(config.patterns) :
              IF given("strings")
              THEN /\ config.patterns[i].type = "string"
                   /\ config.patterns[i].value = toLowerCase(trimmedItem(i))
                   /\ \A j \in 1..Len(config.patterns[i].value) :
                          config.patterns[i].value[j] \notin {"A", "B"}
              ELSE /\ config.patterns[i].type = "regex"
                   /\ config.patterns[i].flags = "i"
                   /\ ~RegexInvalid(trimmedItem(i)) =>
                          config.patterns[i].value = trimmedItem(i)

C31_Witness ==
    /\ spawned
    /\ argv[1] = <<"-", "s">>
    /\ argv[2] = <<" ", "B", ",", ",">>
    /\ config.patterns =
           <<StringPattern(<<"b">>), StringPattern(<<>>), StringPattern(<<>>)>>

\* C32: the match state is monotonic.  No call of checkPatterns, whatever
\* the chunk, removes an identity from the found-set; completed never goes
\* back from true to false, so it changes at most once; and once completed
\* is true no later call changes the found-set.
C32_MatchStateMonotonic ==
    [][/\ foundPatterns \subseteq foundPatterns'
       /\ matcherAllPatternsFound => matcherAllPatternsFound'
       /\ matcherAllPatternsFound => foundPatterns' = foundPatterns]_vars

\* a matcher that grew over two chunks, completed, and was called again
C32_Witness ==
    /\ Len(config.patterns) = 2
    /\ returns = <<FALSE, TRUE, FALSE>>
    /\ ~isMatch(config.patterns[1], calls[2])
    /\ Cardinality(foundPatterns) = 2
    /\ matcherAllPatternsFound

\* the checkPatterns calls of the session that returned true
completionEvents == {k \in 1..Len(returns) : returns[k]}

\* C33: one completion event per session.  At most one checkPatterns call
\* of a session returns true; the supervisor's flag is raised exactly when
\* such a call has been made, so it is raised once and never lowered while
\* later chunks arrive; and it always equals the matcher's isComplete(),
\* on whichever stream the completing chunk came.
C33_OneCompletionEvent ==
    /\ Cardinality(completionEvents) <= 1
    /\ allPatternsFound <=> completionEvents # {}
    /\ allPatternsFound = isComplete

\* completed by a stderr chunk, then a stdout chunk that matches again
C33_Witness ==
    /\ allPatternsFound
    /\ returns = <<FALSE, TRUE, FALSE>>
    /\ Len(errorBuffer) = 1
    /\ errorBuffer[1].text = calls[2]
    /\ calls[1] # calls[2]
    /\ \E i \in 1..Len(config.patterns) : isMatch(config.patterns[i], calls[3])

\* the identity keys of the configured patterns
configuredKeys == {patternKey(config.patterns[i]) : i \in 1..Len(config.patterns)}

\* some checkPatterns call made so far returned true
returnedTrue ==
    \/ \E k \in 1..Len(returns) : returns[k]
    \/ \E k \in 1..Len(undefinedReturns) : undefinedReturns[k] = "true"

\* C34: in every state of a matcher the found-set holds only identity keys
\* of configured patterns and is never larger than the pattern list;
\* isComplete() is true exactly when an earlier checkPatterns call returned
\* true, and then the found-set is as large as the pattern list.
C34_FoundSetWithinPatterns ==
    /\ foundPatterns \subseteq configuredKeys
    /\ Cardinality(foundPatterns) <= Len(config.patterns)
    /\ isComplete <=> returnedTrue
    /\ isComplete => Cardinality(foundPatterns) = Len(config.patterns)

\* one chunk matched both patterns of the list; the same chunk again
C34_Witness ==
    /\ config.patterns = <<StringPattern(<<"a">>), RegexPattern(<<"a", ".">>)>>
    /\ returns = <<TRUE, FALSE>>
    /\ calls[2] = calls[1]
    /\ foundPatterns = {<<"a">>, <<"a", ".">>}
    /\ isComplete

\* chunk k of the session, taken on its own, matches pattern i
matchedAlone(i, k) ==
    IF config.patterns[i].type = "string"
    THEN containsIgnoringCase(calls[k], config.patterns[i].value)
    ELSE RegexTest(config.patterns[i].value, calls[k])

\* C35: matching is per chunk, nothing is carried over from one call to the
\* next.  The key of a pattern is in the found-set only if one of the
\* chunks received so far matches the pattern on its own; the text of a
\* pattern that only appears when consecutive chunks, of one stream or of
\* both, are put together is never recorded.
C35_NoCarryOverBetweenChunks ==
    \A i \in 1..Len(config.patterns) :
        patternKey(config.patterns[i]) \in foundPatterns =>
            \E k \in 1..Len(calls) : matchedAlone(i, k)

\* "Ab" arrives as "A" on stdout followed by "b" on stderr
C35_Witness ==
    /\ config.patterns = <<StringPattern(<<"a", "b">>)>>
    /\ calls = <<<<"A">>, <<"b">>>>
    /\ outputBuffer = <<Piece("child", <<"A">>)>>
    /\ errorBuffer = <<Piece("child", <<"b">>)>>
    /\ containsIgnoringCase(calls[1] \o calls[2], config.patterns[1].value)
    /\ foundPatterns = {}
    /\ ~allPatternsFound

\* no action has been recorded or started
noActionStarted ==
    /\ \A a \in DOMAIN execCount : execCount[a] = 0
    /\ \A a \in ActionNames : actions[a].state = "idle"
    /\ actionOutputBuffer = <<>>

buffersUnflushed ==
    /\ \A k \in 1..Len(realStdout) : realStdout[k].src \in {"child", "run", "npm"}
    /\ \A k \in 1..Len(realStderr) : realStderr[k].src \in {"child", "run", "npm"}
    /\ Len(realStdout) = Len(outputBuffer) + Len(actions["run"].stdout)
                             + Len(actions["npm"].stdout)

\* C37: a termination signal does not cancel the actions.  When the child
\* exits with the flag raised while a grace timer is pending, the exit
\* handler records the message and starts the first configured subprocess
\* as it would without a signal; and when the timer fires while an action
\* is still awaited, the process exits with the signal's code and nothing
\* of the action buffers has been written by finalizeOutput.
C37_SignalDoesNotCancelActions ==
    [][/\ (timers # <<>> /\ allPatternsFound
             /\ childState = "running" /\ childState' = "exited") =>
              /\ config.message =>
                     /\ execCount'["message"] = 1
                     /\ actionOutputBuffer' = <<Piece("message", MessageText)>>
              /\ config.runCommand =>
                     actions'["run"].state = "running" /\ pc' = "awaitRun"
              /\ (~config.runCommand /\ config.npmScript) =>
                     actions'["npm"].state = "running" /\ pc' = "awaitNpm"
       /\ (procState = "alive" /\ exitPath' = "signal"
             /\ pc \in {"awaitRun", "awaitNpm"}) =>
              /\ procExitCode' \in {130, 143}
              /\ pc' = pc
              /\ \E a \in ActionNames : actions'[a].state = "running"
              /\ buffersUnflushed'
              /\ actionOutputBuffer' = actionOutputBuffer]_vars

\* SIGINT, then the child exits with the flag raised, the message is
\* buffered and the run command started, then the timer fires
C37_Witness ==
    /\ childSignals = <<"SIGINT">>
    /\ decision = "run"
    /\ exitPath = "signal"
    /\ procExitCode = 130
    /\ pc = "awaitRun"
    /\ actions["run"].state = "running"
    /\ actionOutputBuffer = <<Piece("message", MessageText)>>
    /\ \A k \in 1..Len(realStdout) : realStdout[k].src = "child"

\* C38: in the sessions where every action subprocess that is started
\* eventually exits or fails to spawn, the supervising process terminates
\* after the child's exit event.  Nothing else bounds the wait: while the exit handler awaits
\* an action, it goes on only when that action settles, and the process
\* ends before that only through the grace timer of a received signal.
C38_TerminatesWhenActionsSettle ==
    /\ childState = "exited" ~> procState = "exited"
    /\ [][(procState = "alive" /\ pc \in {"awaitRun", "awaitNpm"}) =>
              /\ pc' # pc =>
                     \E a \in ActionNames :
                         /\ actions[a].state = "running"
                         /\ actions'[a].state \in {"resolved", "rejected"}
              /\ procState' = "exited" =>
                     /\ childSignals # <<>>
                     /\ exitPath' = "signal"]_vars

\* both subprocesses settled, no signal, and the process ended normally
C38_Witness ==
    /\ childSignals = <<>>
    /\ actions["run"].state = "resolved"
    /\ actions["npm"].state = "rejected"
    /\ procState = "exited"
    /\ exitPath = "normal"

\* the positions of the command-not-found line on the real stderr
notFoundAt ==
    {i \in 1..Len(realStderr) : realStderr[i] = Piece("supervisor", NotFoundText)}

\* the 'exit' handler has gone through finalizeOutput's writes
finalized == pc \in {"awaitImmediate", "done"}

\* C39: on the normal exit path the line 'Failed to start command: Command
\* not found' is on the real stderr once when the child's exit code is 127
\* or 1 and not at all for any other code; it is written at finalization
\* and not before, after every piece of action error output; and in both
\* cases the process exits with status 1.
C39_NotFoundTextFor127And1 ==
    /\ ~finalized => notFoundAt = {}
    /\ finalized =>
           /\ Cardinality(notFoundAt) =
                  IF childExitCode \in {"127", "1"} THEN 1 ELSE 0
           /\ \A i \in notFoundAt :
                  \A j \in 1..Len(realStderr) :
                      isActionPiece(realStderr[j]) => j < i
           /\ childExitCode \in {"127", "1"} => pendingExitCode = 1
    /\ (exitPath = "normal" /\ childExitCode \in {"127", "1"}) =>
           procExitCode = 1

====
